---- MODULE Spec2Model ----
(***************************************************************************)
(* A model of the rate-limited Scryfall resolution client                  *)
(* (src/src/services/scryfall.ts) and of the reference parser              *)
(* (src/src/services/parser.ts).                                           *)
(*                                                                         *)
(* Strings are sequences of one-character strings, so that the regular     *)
(* expressions, split/slice/join and encodeURIComponent are computed on    *)
(* characters.  JavaScript values are tagged records: Undefined, Str(s),   *)
(* cards and lists.  Promises are records [state, value].                  *)
(***************************************************************************)
EXTENDS Integers, Sequences, FiniteSets, TLC

(***************************************************************************)
(* Bounds of the model.                                                    *)
(***************************************************************************)
\* number of inputs (per-input promise chains) that may be under way at once
MaxTasks == 2
\* number of client operations that may be under way at once
MaxCalls == 1
\* number of list pages the remote serves to the inputs under way
MaxPages == 3
\* most entries the remote puts in one page
MaxPageLen == 2
\* longest generated name of the request-building specification
MaxNameLen == 8
\* longest generated line of the parsing specification
MaxLineLen == 5

(***************************************************************************)
(* Characters and JavaScript values.                                       *)
(***************************************************************************)
Digit == {"0", "1", "2", "3", "4", "5", "6", "7", "8", "9"}

LowerCase ==
    {"a", "b", "c", "d", "e", "f", "g", "h", "i", "j", "k", "l", "m",
     "n", "o", "p", "q", "r", "s", "t", "u", "v", "w", "x", "y", "z"}

UpperCase ==
    {"A", "B", "C", "D", "E", "F", "G", "H", "I", "J", "K", "L", "M",
     "N", "O", "P", "Q", "R", "S", "T", "U", "V", "W", "X", "Y", "Z"}

\* [0-9a-f]
HexLower == Digit \cup {"a", "b", "c", "d", "e", "f"}

\* [a-zA-Z]
Letter == LowerCase \cup UpperCase

\* [a-zA-Z0-9]
AlNum == Letter \cup Digit

Undefined == [kind |-> "undefined"]

Str(s) == [kind |-> "string", chars |-> s]

Range(s) == {s[i] : i \in 1..Len(s)}

(***************************************************************************)
(* The fields of ScryfallService.                                          *)
(***************************************************************************)
SCRYFALL_API_URI ==
    <<"h", "t", "t", "p", "s", ":", "/", "/", "a", "p", "i", ".",
      "s", "c", "r", "y", "f", "a", "l", "l", ".", "c", "o", "m">>

API_DELAY_MS == 100

validLanguages ==
    { <<"e", "n">>, <<"e", "s">>, <<"f", "r">>, <<"d", "e">>, <<"i", "t">>,
      <<"p", "t">>, <<"j", "a">>, <<"k", "o">>, <<"r", "u">>,
      <<"z", "h", "s">>, <<"z", "h", "t">> }

\* s[from .. from+n-1] exists and lies in the character class
RunOf(s, from, n, class) ==
    /\ from + n - 1 <= Len(s)
    /\ \A k \in from..(from + n - 1) : s[k] \in class

\* a mutation of uuidRegexpTest: [0-9A-F] in place of [0-9a-f]
uuidRegexpUpper(s) ==
    /\ Len(s) = 36
    /\ RunOf(s, 1, 8, Digit \cup {"A", "B", "C", "D", "E", "F"})
    /\ s[9] = "-"
    /\ RunOf(s, 10, 4, Digit \cup {"A", "B", "C", "D", "E", "F"})
    /\ s[14] = "-"
    /\ RunOf(s, 15, 4, Digit \cup {"A", "B", "C", "D", "E", "F"})
    /\ s[19] = "-"
    /\ RunOf(s, 20, 4, Digit \cup {"A", "B", "C", "D", "E", "F"})
    /\ s[24] = "-"
    /\ RunOf(s, 25, 12, Digit \cup {"A", "B", "C", "D", "E", "F"})

\* /^[0-9a-f]{8}-[0-9a-f]{4}-[0-9a-f]{4}-[0-9a-f]{4}-[0-9a-f]{12}$/.test(s)
uuidRegexpTest(s) ==
    /\ Len(s) = 36
    /\ RunOf(s, 1, 8, HexLower)
    /\ s[9] = "-"
    /\ RunOf(s, 10, 4, HexLower)
    /\ s[14] = "-"
    /\ RunOf(s, 15, 4, HexLower)
    /\ s[19] = "-"
    /\ RunOf(s, 20, 4, HexLower)
    /\ s[24] = "-"
    /\ RunOf(s, 25, 12, HexLower)

\* the tail (?:\/(?:[a-zA-Z]{2,3})?)?$ of codeNumberRegexp, from position p
CodeTail(s, p) ==
    \/ p = Len(s) + 1
    \/ /\ p <= Len(s)
       /\ s[p] = "/"
       /\ \/ p = Len(s)
          \/ \E n \in 2..3 : p + n = Len(s) /\ RunOf(s, p + 1, n, Letter)

\* /^[a-zA-Z0-9]{3,5}\/[^/]+(?:\/(?:[a-zA-Z]{2,3})?)?$/.test(s)
codeNumberRegexpTest(s) ==
    \E k \in 3..5 :
      /\ RunOf(s, 1, k, AlNum)
      /\ k + 1 <= Len(s)
      /\ s[k + 1] = "/"
      /\ \E m \in 1..Len(s) :
           /\ k + 1 + m <= Len(s)
           /\ \A j \in (k + 2)..(k + 1 + m) : s[j] # "/"
           /\ CodeTail(s, k + 2 + m)

RECURSIVE SplitFrom(_, _, _)
\* s.split('/') continued from position p with the segment cur in progress
SplitFrom(s, p, cur) ==
    IF p > Len(s) THEN <<cur>>
    ELSE IF s[p] = "/" THEN <<cur>> \o SplitFrom(s, p + 1, <<>>)
    ELSE SplitFrom(s, p + 1, Append(cur, s[p]))

\* String.prototype.split('/')
Split(s) == SplitFrom(s, 1, <<>>)

\* Array.prototype.slice(0, n)
Slice0(a, n) == SubSeq(a, 1, IF Len(a) < n THEN Len(a) ELSE n)

RECURSIVE Join(_)
\* Array.prototype.join('/')
Join(a) ==
    IF Len(a) = 0 THEN <<>>
    ELSE IF Len(a) = 1 THEN a[1]
    ELSE a[1] \o <<"/">> \o Join(Tail(a))

\* characters encodeURIComponent leaves alone
UriUnreserved ==
    AlNum \cup {"-", "_", ".", "!", "~", "*", "'", "(", ")"}

\* the percent escapes of the other characters names are built from
PercentEscape ==
    [c \in {" ", "/", "?", "&", "=", "%", "+", "#", ",", ":"} |->
        CASE c = " " -> <<"%", "2", "0">>
          [] c = "/" -> <<"%", "2", "F">>
          [] c = "?" -> <<"%", "3", "F">>
          [] c = "&" -> <<"%", "2", "6">>
          [] c = "=" -> <<"%", "3", "D">>
          [] c = "%" -> <<"%", "2", "5">>
          [] c = "+" -> <<"%", "2", "B">>
          [] c = "#" -> <<"%", "2", "3">>
          [] c = "," -> <<"%", "2", "C">>
          [] c = ":" -> <<"%", "3", "A">>]

\* the characters a name may hold
NameChar == UriUnreserved \cup DOMAIN PercentEscape

RECURSIVE encodeURIComponent(_)
encodeURIComponent(s) ==
    IF Len(s) = 0 THEN <<>>
    ELSE (IF s[1] \in UriUnreserved THEN <<s[1]>> ELSE PercentEscape[s[1]])
         \o encodeURIComponent(Tail(s))

\* a mutation of CodeWithLanguage: the language is appended to the whole code
CodeWithLanguageMerged(name, language) ==
    IF language # Undefined /\ language.chars \in validLanguages
    THEN name \o <<"/">> \o language.chars
    ELSE name

\* a mutation of CodeWithLanguage: any language given is put in the code
CodeWithLanguageAny(name, language) ==
    IF language # Undefined
    THEN Join(Slice0(Split(name), 2)) \o <<"/">> \o language.chars
    ELSE name

\* getCard's cardCode: the code, its language segment replaced by a valid
\* reference language
CodeWithLanguage(name, language) ==
    IF language # Undefined /\ language.chars \in validLanguages
    THEN Join(Slice0(Split(name), 2)) \o <<"/">> \o language.chars
    ELSE name

\* getCard's requestURI
GetCardURI(parsedCard) ==
    IF uuidRegexpTest(parsedCard.name)
    THEN SCRYFALL_API_URI \o <<"/", "c", "a", "r", "d", "s", "/">>
         \o parsedCard.name
    ELSE IF codeNumberRegexpTest(parsedCard.name)
    THEN SCRYFALL_API_URI \o <<"/", "c", "a", "r", "d", "s", "/">>
         \o CodeWithLanguage(parsedCard.name, parsedCard.language)
    ELSE SCRYFALL_API_URI
         \o <<"/", "c", "a", "r", "d", "s", "/", "n", "a", "m", "e", "d",
              "/", "?", "f", "u", "z", "z", "y", "=">>
         \o encodeURIComponent(parsedCard.name)

(***************************************************************************)
(* Promises, arrays, and what the remote catalog serves.                   *)
(***************************************************************************)
List(items) == [kind |-> "list", items |-> items]

Pending == [state |-> "pending", value |-> Undefined]

Fulfilled(v) == [state |-> "fulfilled", value |-> v]

Rejected == [state |-> "rejected", value |-> [kind |-> "error"]]

\* the record the remote serves for a single-card request
CardFor(uri) ==
    [kind |-> "card", id |-> uri, games |-> <<"paper">>,
     prints_search_uri |-> uri \o <<"/", "p", "r", "i", "n", "t", "s", "?", "q">>]

\* the k-th entry of page p of a print history
Entry(p, k) ==
    [kind |-> "card", id |-> <<p, k>>,
     games |-> CASE (p + k) % 3 = 0 -> <<"paper">>
                 [] (p + k) % 3 = 1 -> <<"mtgo">>
                 [] OTHER -> <<"arena", "paper">>]

PageData(p, n) == [k \in 1..n |-> Entry(p, k)]

\* the address of page p of the list at base
PageUri(base, p) ==
    IF p = 1 THEN base
    ELSE base \o <<"&", "p", "a", "g", "e", "=">>
              \o <<(<<"1", "2", "3", "4", "5", "6", "7", "8", "9">>)[p]>>

\* the list envelopes the remote may serve for page p of the list at base;
\* it announces a further page only while more is set
Envelopes(base, p, more) ==
    { e \in [data : {PageData(p, n) : n \in 0..MaxPageLen},
             has_more : BOOLEAN,
             next_page : {Undefined, Str(PageUri(base, p + 1))}] :
        more \/ ~e.has_more \/ e.next_page = Undefined }

(***************************************************************************)
(* getCardPrintsFromCard and _getListFromApi.                              *)
(***************************************************************************)
\* getCardPrintsFromCard's url
PrintsUrl(scryfallCard, includeMultilingual) ==
    IF includeMultilingual
    THEN scryfallCard.prints_search_uri
         \o <<"&", "i", "n", "c", "l", "u", "d", "e", "_", "m", "u", "l",
              "t", "i", "l", "i", "n", "g", "u", "a", "l", "=", "t", "r",
              "u", "e">>
    ELSE scryfallCard.prints_search_uri

\* cards.filter((card) => card.games.includes('paper'))
FilterPaper(cards) ==
    SelectSeq(cards, LAMBDA card : "paper" \in Range(card.games))

\* the success transform getCardPrintsFromCard hands to _getListFromApi
Transform(cards, onlyPaper) ==
    IF onlyPaper THEN List(FilterPaper(cards.items)) ELSE cards

\* a mutation of HasNextPage: next_page alone decides
HasNextPageIgnoringFlag(json) == json.next_page # Undefined

\* json.has_more && json.next_page !== undefined
HasNextPage(json) == json.has_more /\ json.next_page # Undefined

\* a mutation of SuccessCallback: the inner lists are put ahead of the
\* current page
SuccessCallbackReversed(pages, k, listData, onlyPaper) ==
    IF k = 1
    THEN [value |-> Transform(listData, onlyPaper), seen |-> <<listData>>]
    ELSE [value |-> List(listData.items \o pages[k - 1]), seen |-> <<>>]

\* a mutation of SuccessCallback: every level applies the caller's
\* transform to what it has assembled
SuccessCallbackEager(pages, k, listData, onlyPaper) ==
    IF k = 1
    THEN [value |-> Transform(listData, onlyPaper), seen |-> <<listData>>]
    ELSE [value |-> Transform(List(pages[k - 1] \o listData.items), onlyPaper),
          seen |-> <<List(pages[k - 1] \o listData.items)>>]

\* the successCallback of the level-k call of _getListFromApi, applied to
\* listData: the caller's transform at level 1, and at level k > 1 the
\* closure (listData) => [...json.data, ...listData] over page k-1.  seen
\* lists the arguments the caller's transform was invoked with.
SuccessCallback(pages, k, listData, onlyPaper) ==
    IF k = 1
    THEN [value |-> Transform(listData, onlyPaper), seen |-> <<listData>>]
    ELSE [value |-> List(pages[k - 1] \o listData.items), seen |-> <<>>]

RECURSIVE ThenChain(_, _, _, _)
\* the outermost promise of the recursion once the level-k promise is
\* fulfilled with r.value: each enclosing level runs
\* .then(allData => allData !== undefined ? successCallback(allData) : undefined)
ThenChain(pages, k, r, onlyPaper) ==
    IF k = 1 THEN r
    ELSE LET s == IF r.value # Undefined
                  THEN SuccessCallback(pages, k - 1, r.value, onlyPaper)
                  ELSE [value |-> Undefined, seen |-> <<>>]
         IN ThenChain(pages, k - 1,
                      [value |-> s.value, seen |-> r.seen \o s.seen],
                      onlyPaper)

(***************************************************************************)
(* _callApi and the Delayer.                                               *)
(***************************************************************************)
\* a mutation of CallApiOutcome: a failed call is reported as no result
CallApiOutcomeSwallow(kind) ==
    CASE kind = "json" -> "callback"
      [] OTHER -> "undefined"

\* what _callApi does with each way the transport can answer: fetch throws,
\* the response is not ok, res.json() rejects, res.json() gives the body
CallApiOutcome(kind) ==
    CASE kind = "fetch_throws" -> "reject"
      [] kind = "not_ok" -> "undefined"
      [] kind = "json_throws" -> "reject"
      [] kind = "json" -> "callback"

\* fetch(uri) starts: the time since the previous start is recorded
FetchStart(g) ==
    [g EXCEPT !.fetchGaps = Append(@, g.elapsed), !.elapsed = 0]

\* Delayer.execute: the operation joins the queue
DelayerExecute(g, i) == [g EXCEPT !.queue = Append(@, i)]

\* a mutation of CallApiSubmit: fetch is called directly
CallApiSubmitDirect(g, i) == FetchStart(g)

\* _callApi's this.delayer.execute(() => fetch(uri)) for the request of task i
CallApiSubmit(g, i) == DelayerExecute(g, i)

(***************************************************************************)
(* The state.                                                              *)
(*   tasks     one record per input of a client operation: the chain of    *)
(*             promises the operation builds for that input                *)
(*   calls     one record per client operation, with the promise returned  *)
(*   queue     the Delayer's pending operations, as task numbers           *)
(*   elapsed   milliseconds since the last fetch started, up to            *)
(*             API_DELAY_MS                                                *)
(*   fetchGaps for each fetch started, the value of elapsed at its start   *)
(*   line      the line of text handed to parseString                      *)
(*   parsed    what parseString was called with and returned, call after   *)
(*             call                                                        *)
(***************************************************************************)
VARIABLES tasks, calls, queue, elapsed, fetchGaps, line, parsed

vars == <<tasks, calls, queue, elapsed, fetchGaps, line, parsed>>

parserVars == <<line, parsed>>

Gate == [queue |-> queue, elapsed |-> elapsed, fetchGaps |-> fetchGaps]

EmptyFlags == << >>

ParsedCard(name, language) ==
    [name |-> name, quantity |-> 1, language |-> language,
     customFlags |-> EmptyFlags]

\* the references the client operations are called with
Refs ==
    { ParsedCard(<<"m", "3", "c", "/", "3", "3", "1", "/", "d", "e">>,
                 Str(<<"f", "r">>)),
      ParsedCard(<<"B", "l", "a", "c", "k", " ", "L", "o", "t", "u", "s">>,
                 Undefined) }

SingleOps == {"getCard", "getCardPrintsFromCard"}

\* the promise chain of input idx of call c, its first request not yet made
NewTask(c, idx, input, stage) ==
    [call |-> c, idx |-> idx, input |-> input, stage |-> stage,
     net |-> "idle", uris |-> << >>, served |-> << >>, pages |-> << >>,
     card |-> Pending, list |-> Pending, promise |-> Pending,
     cbCalls |-> << >>, transformCalls |-> << >>]

\* _callApi(uri) is entered for the task
Requested(t, uri) == [t EXCEPT !.net = "requested", !.uris = Append(@, uri)]

NewCall(op, first, n, multi, paper) ==
    [op |-> op, first |-> first, n |-> n,
     includeMultilingual |-> multi, onlyPaper |-> paper,
     values |-> [k \in 1..n |-> Undefined], remaining |-> n, order |-> << >>,
     promise |-> IF n = 0 THEN Fulfilled(List(<< >>)) ELSE Pending]

(***************************************************************************)
(* parseString (src/src/services/parser.ts) and parseFlags.                *)
(***************************************************************************)
\* the characters \s matches, among those lines are built from
WhiteSpace == {" ", "\t", "\n"}

\* the characters . does not match
LineTerminator == {"\n"}

Null == [kind |-> "null"]

NaN == [kind |-> "NaN"]

Num(n) == [kind |-> "number", value |-> n]

\* \s-[a-zA-Z]+(?:=\S*)? matches exactly s[p..q]
FlagToken(s, p, q) ==
    /\ p + 2 <= q
    /\ q <= Len(s)
    /\ s[p] \in WhiteSpace
    /\ s[p + 1] = "-"
    /\ \E k \in (p + 2)..q :
         /\ \A j \in (p + 2)..k : s[j] \in Letter
         /\ \/ k = q
            \/ /\ k < q
               /\ s[k + 1] = "="
               /\ \A j \in (k + 2)..q : s[j] \notin WhiteSpace

RECURSIVE FlagsSegment(_, _)
\* (?:\s-[a-zA-Z]+(?:=\S*)?)*$ matches s from position p to its end
FlagsSegment(s, p) ==
    \/ p = Len(s) + 1
    \/ \E q \in (p + 2)..Len(s) : FlagToken(s, p, q) /\ FlagsSegment(s, q + 1)

RECURSIVE LazyName(_, _, _)
\* (.*?) from position p, having taken n characters: the least number of
\* characters after which the rest of the pattern matches, or -1 when a
\* line terminator or the end of s is met first
LazyName(s, p, n) ==
    IF FlagsSegment(s, p + n) THEN n
    ELSE IF p + n > Len(s) THEN -1
    ELSE IF s[p + n] \in LineTerminator THEN -1
    ELSE LazyName(s, p, n + 1)

RECURSIVE RunLength(_, _, _)
\* the length of the longest run of characters of the class from position p
RunLength(s, p, class) ==
    IF p <= Len(s) /\ s[p] \in class THEN 1 + RunLength(s, p + 1, class)
    ELSE 0

\* the groups of a match whose name starts at p
Groups(s, quantity, p) ==
    LET n == LazyName(s, p, 0)
    IN [kind |-> "match",
        groups |-> << quantity,
                      Str(SubSeq(s, p, p + n - 1)),
                      IF p + n > Len(s) THEN Undefined
                      ELSE Str(SubSeq(s, p + n, Len(s))) >>]

\* a mutation of RegexpMatch: the digits are taken as the quantity without
\* the whitespace after them being required
RegexpMatchDigitsAlone(s) ==
    LET d == RunLength(s, 1, Digit)
        w == RunLength(s, d + 1, WhiteSpace)
    IN IF d > 0 /\ LazyName(s, d + w + 1, 0) # -1
       THEN Groups(s, Str(SubSeq(s, 1, d)), d + w + 1)
       ELSE IF LazyName(s, 1, 0) # -1 THEN Groups(s, Undefined, 1)
       ELSE Null

\* input.match(/^(?:([0-9]+)\s+)?(.*?)((?:\s-[a-zA-Z]+(?:=\S*)?)*)?$/):
\* the first match in the order the pattern is tried.  ([0-9]+) takes every
\* leading digit and \s+ as much of the whitespace after them as lets the
\* rest match; with fewer digits \s+ would meet a digit; failing that the
\* quantity group is left out.  An empty flags segment leaves group 3
\* undefined.
RegexpMatch(s) ==
    LET d == RunLength(s, 1, Digit)
        W == RunLength(s, d + 1, WhiteSpace)
        ws == {w \in 1..W : d > 0 /\ LazyName(s, d + w + 1, 0) # -1}
    IN IF ws # {}
       THEN LET w == CHOOSE x \in ws : \A y \in ws : y <= x
            IN Groups(s, Str(SubSeq(s, 1, d)), d + w + 1)
       ELSE IF LazyName(s, 1, 0) # -1 THEN Groups(s, Undefined, 1)
       ELSE Null

DigitValue ==
    [c \in Digit |->
        CASE c = "0" -> 0 [] c = "1" -> 1 [] c = "2" -> 2 [] c = "3" -> 3
          [] c = "4" -> 4 [] c = "5" -> 5 [] c = "6" -> 6 [] c = "7" -> 7
          [] c = "8" -> 8 [] c = "9" -> 9]

RECURSIVE Decimal(_)
\* the value of a run of decimal digits
Decimal(ds) ==
    IF Len(ds) = 0 THEN 0
    ELSE 10 * Decimal(SubSeq(ds, 1, Len(ds) - 1)) + DigitValue[ds[Len(ds)]]

\* parseInt of group 1: undefined, or a run of digits
parseInt(v) == IF v = Undefined THEN NaN ELSE Num(Decimal(v.chars))

isNaN(v) == v.kind = "NaN"

\* Map.prototype.set
FlagsSet(flags, key, value) ==
    [x \in DOMAIN flags \cup {key} |-> IF x = key THEN value ELSE flags[x]]

\* Map.prototype.get
FlagsGet(flags, key) == IF key \in DOMAIN flags THEN flags[key] ELSE Undefined

\* a mutation of FlagsDelete: the key stays
FlagsDeleteNothing(flags, key) == flags

\* Map.prototype.delete
FlagsDelete(flags, key) == [x \in DOMAIN flags \ {key} |-> flags[x]]

RECURSIVE ParseFlagsFrom(_, _, _)
\* the flag tokens of s from position p on, added to flags: a token is a
\* dash at the start or after whitespace, then letters, then either
\* whitespace or the end (no value), or '=' and the value up to the next
\* whitespace; anything else is passed over
ParseFlagsFrom(s, p, flags) ==
    IF p > Len(s) THEN flags
    ELSE LET n == RunLength(s, p + 1, Letter)
             e == p + n + 1
             v == RunLength(s, e + 1, Range(s) \ WhiteSpace)
         IN IF s[p] # "-" \/ (p > 1 /\ s[p - 1] \notin WhiteSpace) \/ n = 0
            THEN ParseFlagsFrom(s, p + 1, flags)
            ELSE IF e > Len(s) \/ s[e] \in WhiteSpace
            THEN ParseFlagsFrom(s, e, FlagsSet(flags, SubSeq(s, p + 1, p + n),
                                               Undefined))
            ELSE IF s[e] = "="
            THEN ParseFlagsFrom(s, e + v + 1,
                                FlagsSet(flags, SubSeq(s, p + 1, p + n),
                                         Str(SubSeq(s, e + 1, e + v))))
            ELSE ParseFlagsFrom(s, e, flags)

\* parseFlags of group 3: undefined, or the flags segment
parseFlags(segment) ==
    IF segment = Undefined THEN EmptyFlags
    ELSE ParseFlagsFrom(segment.chars, 1, EmptyFlags)

parseString(input) ==
    LET match == RegexpMatch(input)
    IN IF match = Null THEN Undefined
       ELSE LET parsedQuantity == parseInt(match.groups[1])
                quantity == IF isNaN(parsedQuantity) THEN 1
                            ELSE parsedQuantity.value
                flags == parseFlags(match.groups[3])
                language == FlagsGet(flags, <<"l">>)
            IN [name |-> match.groups[2].chars,
                quantity |-> quantity,
                language |-> language,
                customFlags |-> FlagsDelete(flags, <<"l">>)]

Init ==
    /\ tasks = << >>
    /\ calls = << >>
    /\ queue = << >>
    /\ elapsed = API_DELAY_MS
    /\ fetchGaps = << >>
    /\ line = << >>
    /\ parsed = << >>

(***************************************************************************)
(* Promise.all over the per-input promises of a call.                      *)
(***************************************************************************)
\* a mutation of PromiseAllFulfil: the values are kept in completion order
PromiseAllFulfilInCompletionOrder(c, idx, v) ==
    LET done == c.n - c.remaining
        vals == [c.values EXCEPT ![done + 1] = v]
    IN [c EXCEPT !.values = vals, !.remaining = @ - 1,
                 !.promise = IF c.remaining = 1 /\ c.promise.state = "pending"
                             THEN Fulfilled(List(vals)) ELSE @]

\* a mutation of PromiseAllFulfil: the first input fulfilled fulfils the
\* whole, as Promise.race would
PromiseAllFulfilOnFirst(c, idx, v) ==
    LET vals == [c.values EXCEPT ![idx] = v]
    IN [c EXCEPT !.values = vals, !.remaining = @ - 1,
                 !.promise = IF c.promise.state = "pending"
                             THEN Fulfilled(List(vals)) ELSE @]

\* Promise.all: the promise of input idx is fulfilled with v
PromiseAllFulfil(c, idx, v) ==
    LET vals == [c.values EXCEPT ![idx] = v]
    IN [c EXCEPT !.values = vals, !.remaining = @ - 1,
                 !.promise = IF c.remaining = 1 /\ c.promise.state = "pending"
                             THEN Fulfilled(List(vals)) ELSE @]

\* Promise.all: the promise of some input is rejected
PromiseAllReject(c) ==
    [c EXCEPT !.promise = IF @.state = "pending" THEN Rejected ELSE @]

\* the promise the operation returned, once the promise of input idx settles
CallSettle(c, idx, p) ==
    LET c1 == [c EXCEPT !.order = Append(@, idx)]
    IN IF c.op \in SingleOps THEN [c1 EXCEPT !.promise = p]
       ELSE IF p.state = "fulfilled" THEN PromiseAllFulfil(c1, idx, p.value)
       ELSE PromiseAllReject(c1)

(***************************************************************************)
(* What follows the getCard promise and the _getListFromApi promise of an  *)
(* input.  Each gives the new task and whether a new request was made.     *)
(***************************************************************************)
\* .then((x) => callback(card, x)): the callback runs on fulfilment only
ThenCallback(t, p) ==
    IF p.state = "fulfilled"
    THEN [t EXCEPT !.cbCalls = Append(@, [input |-> t.idx, result |-> p.value]),
                   !.promise = Fulfilled(Undefined), !.stage = "done"]
    ELSE [t EXCEPT !.promise = Rejected, !.stage = "done"]

\* the _getListFromApi promise of the task has settled in t.list
AfterList(t, c) ==
    IF c.op = "getCardPrintsFromCard"
    THEN [task |-> [t EXCEPT !.promise = t.list, !.stage = "done"],
          submit |-> FALSE]
    ELSE [task |-> ThenCallback(t, t.list), submit |-> FALSE]

\* a mutation of AfterCard: getCardPrintsAndDo does not look whether the
\* lookup found a card; reading prints_search_uri of undefined throws, the
\* per-input promise is rejected and the callback is not invoked
AfterCardUnguarded(t, c) ==
    CASE c.op \in {"getCard", "getCardsBatch"} ->
           [task |-> [t EXCEPT !.promise = t.card, !.stage = "done"],
            submit |-> FALSE]
      [] c.op = "getCardsAndDo" ->
           [task |-> ThenCallback(t, t.card), submit |-> FALSE]
      [] c.op = "getCardPrintsAndDo" ->
           IF t.card.state = "fulfilled" /\ t.card.value # Undefined
           THEN [task |-> Requested([t EXCEPT !.stage = "list"],
                                    PrintsUrl(t.card.value,
                                              c.includeMultilingual)),
                 submit |-> TRUE]
           ELSE [task |-> [t EXCEPT !.promise = Rejected, !.stage = "done"],
                 submit |-> FALSE]

\* the getCard promise of the task has settled in t.card
AfterCard(t, c) ==
    CASE c.op \in {"getCard", "getCardsBatch"} ->
           [task |-> [t EXCEPT !.promise = t.card, !.stage = "done"],
            submit |-> FALSE]
      [] c.op = "getCardsAndDo" ->
           [task |-> ThenCallback(t, t.card), submit |-> FALSE]
      [] c.op = "getCardPrintsAndDo" ->
           IF t.card.state = "fulfilled" /\ t.card.value # Undefined
           THEN [task |-> Requested([t EXCEPT !.stage = "list"],
                                    PrintsUrl(t.card.value,
                                              c.includeMultilingual)),
                 submit |-> TRUE]
           ELSE [task |-> ThenCallback(t, t.card), submit |-> FALSE]

\* a mutation of OnResponse: a request answered not ok is made once more
OnResponseRetry(t, c, ev) ==
    IF ev.kind = "not_ok"
       /\ \A k \in 1..Len(t.served) : t.served[k].kind # "not_ok"
    THEN [task |-> Requested([t EXCEPT !.served = Append(@, ev)],
                             t.uris[Len(t.uris)]),
          submit |-> TRUE]
    ELSE
        LET out == CallApiOutcome(ev.kind)
            t0 == [t EXCEPT !.served = Append(@, ev), !.net = "idle"]
            L == Len(t.pages) + 1
        IN IF t.stage = "card"
           THEN AfterCard([t0 EXCEPT !.card =
                              CASE out = "reject" -> Rejected
                                [] out = "undefined" -> Fulfilled(Undefined)
                                [] OTHER -> Fulfilled(ev.body)], c)
           ELSE IF out = "reject"
           THEN AfterList([t0 EXCEPT !.list = Rejected], c)
           ELSE IF out = "callback" /\ HasNextPage(ev.body)
           THEN [task |-> Requested([t0 EXCEPT !.pages = Append(@, ev.body.data)],
                                    ev.body.next_page.chars),
                 submit |-> TRUE]
           ELSE LET inner == IF out = "callback"
                             THEN SuccessCallback(t.pages, L, List(ev.body.data),
                                                  c.onlyPaper)
                             ELSE [value |-> Undefined, seen |-> << >>]
                    r == ThenChain(t.pages, L, inner, c.onlyPaper)
                IN AfterList([t0 EXCEPT !.list = Fulfilled(r.value),
                                        !.transformCalls = @ \o r.seen], c)

\* the transport's answer ev to the outstanding request of task t
OnResponse(t, c, ev) ==
    LET out == CallApiOutcome(ev.kind)
        t0 == [t EXCEPT !.served = Append(@, ev), !.net = "idle"]
        L == Len(t.pages) + 1
    IN IF t.stage = "card"
       THEN AfterCard([t0 EXCEPT !.card =
                          CASE out = "reject" -> Rejected
                            [] out = "undefined" -> Fulfilled(Undefined)
                            [] OTHER -> Fulfilled(ev.body)], c)
       ELSE IF out = "reject"
       THEN AfterList([t0 EXCEPT !.list = Rejected], c)
       ELSE IF out = "callback" /\ HasNextPage(ev.body)
       THEN [task |-> Requested([t0 EXCEPT !.pages = Append(@, ev.body.data)],
                                ev.body.next_page.chars),
             submit |-> TRUE]
       ELSE LET inner == IF out = "callback"
                         THEN SuccessCallback(t.pages, L, List(ev.body.data),
                                              c.onlyPaper)
                         ELSE [value |-> Undefined, seen |-> << >>]
                r == ThenChain(t.pages, L, inner, c.onlyPaper)
            IN AfterList([t0 EXCEPT !.list = Fulfilled(r.value),
                                    !.transformCalls = @ \o r.seen], c)

(***************************************************************************)
(* The client operations.                                                  *)
(***************************************************************************)
SetGate(g) ==
    /\ queue' = g.queue
    /\ elapsed' = g.elapsed
    /\ fetchGaps' = g.fetchGaps

RECURSIVE SubmitAllReversed(_, _, _)
\* a mutation of SubmitAll: the requests are made last input first
SubmitAllReversed(g, first, n) ==
    IF n = 0 THEN g
    ELSE SubmitAllReversed(CallApiSubmit(g, first + n - 1), first, n - 1)

RECURSIVE SubmitAll(_, _, _)
\* the requests of tasks first .. first+n-1 are made one after the other
SubmitAll(g, first, n) ==
    IF n = 0 THEN g
    ELSE SubmitAll(CallApiSubmit(g, first), first + 1, n - 1)

CanCall(n) == Len(calls) < MaxCalls /\ Len(tasks) + n <= MaxTasks

\* an operation that calls getCard for each of cards, in order
StartCards(op, cards, multi, paper) ==
    LET cid == Len(calls) + 1
        first == Len(tasks) + 1
        n == Len(cards)
    IN /\ CanCall(n)
       /\ tasks' = tasks \o
            [k \in 1..n |-> Requested(NewTask(cid, k, cards[k], "card"),
                                      GetCardURI(cards[k]))]
       /\ calls' = Append(calls, NewCall(op, first, n, multi, paper))
       /\ SetGate(SubmitAll(Gate, first, n))
       /\ UNCHANGED parserVars

getCard(parsedCard) == StartCards("getCard", <<parsedCard>>, FALSE, FALSE)

getCardsBatch(parsedCard) ==
    StartCards("getCardsBatch", parsedCard, FALSE, FALSE)

getCardsAndDo(cards) == StartCards("getCardsAndDo", cards, FALSE, FALSE)

getCardPrintsAndDo(cards, includeMultilingual, onlyPaper) ==
    StartCards("getCardPrintsAndDo", cards, includeMultilingual, onlyPaper)

getCardPrintsFromCard(scryfallCard, includeMultilingual, onlyPaper) ==
    LET cid == Len(calls) + 1
        i == Len(tasks) + 1
    IN /\ CanCall(1)
       /\ tasks' = Append(tasks,
            Requested(NewTask(cid, 1, scryfallCard, "list"),
                      PrintsUrl(scryfallCard, includeMultilingual)))
       /\ calls' = Append(calls, NewCall("getCardPrintsFromCard", i, 1,
                                         includeMultilingual, onlyPaper))
       /\ SetGate(CallApiSubmit(Gate, i))
       /\ UNCHANGED parserVars

\* the lists of references a batch operation may be given
CardLists == UNION {[1..n -> Refs] : n \in 0..MaxTasks}

\* the <<includeMultilingual, onlyPaper>> the print operations are called
\* with: the defaults, and both changed
PrintOptions == {<<FALSE, TRUE>>, <<TRUE, FALSE>>}

\* the client drops the promises of its finished operations; the service
\* and its Delayer live on
Forget ==
    /\ calls # << >>
    /\ \A i \in 1..Len(tasks) : tasks[i].stage = "done"
    /\ tasks' = << >>
    /\ calls' = << >>
    /\ fetchGaps' = << >>
    /\ UNCHANGED <<queue, elapsed, parserVars>>

(***************************************************************************)
(* Time, the Delayer and the transport.                                    *)
(***************************************************************************)
\* time passes
Tick ==
    /\ elapsed < API_DELAY_MS
    /\ elapsed' = IF elapsed + 50 > API_DELAY_MS THEN API_DELAY_MS
                  ELSE elapsed + 50
    /\ UNCHANGED <<tasks, calls, queue, fetchGaps, parserVars>>

\* the Delayer starts its oldest pending operation, no sooner than the
\* delay after the previous start
DelayerDispatch ==
    /\ queue # << >>
    /\ elapsed >= API_DELAY_MS
    /\ SetGate(FetchStart([Gate EXCEPT !.queue = Tail(@)]))
    /\ UNCHANGED <<tasks, calls, parserVars>>

\* the fetch of task i has started and not yet answered
InFlight(i) ==
    /\ tasks[i].net = "requested"
    /\ i \notin Range(queue)

\* the transport answers the request of task i with ev; the promise
\* reactions that follow run to completion
Respond(i, ev) ==
    LET t == tasks[i]
        c == calls[t.call]
        r == OnResponse(t, c, ev)
    IN /\ tasks' = [tasks EXCEPT ![i] = r.task]
       /\ calls' = IF r.task.promise.state # "pending"
                   THEN [calls EXCEPT ![t.call] =
                            CallSettle(c, t.idx, r.task.promise)]
                   ELSE calls
       /\ SetGate(IF r.submit THEN CallApiSubmit(Gate, i) ELSE Gate)
       /\ UNCHANGED parserVars

\* fetch(uri) of some task throws
FetchThrows ==
    \E i \in 1..Len(tasks) :
      /\ InFlight(i)
      /\ Respond(i, [kind |-> "fetch_throws"])

\* a response arrives and is not ok
FetchNotOk ==
    \E i \in 1..Len(tasks) :
      /\ InFlight(i)
      /\ Respond(i, [kind |-> "not_ok"])

\* a response arrives and is ok: res.json() is under way
FetchOk ==
    \E i \in 1..Len(tasks) :
      /\ InFlight(i)
      /\ tasks' = [tasks EXCEPT ![i].net = "decoding"]
      /\ UNCHANGED <<calls, queue, elapsed, fetchGaps, parserVars>>

\* res.json() rejects
JsonThrows ==
    \E i \in 1..Len(tasks) :
      /\ tasks[i].net = "decoding"
      /\ Respond(i, [kind |-> "json_throws"])

RECURSIVE PagesServed(_, _)
\* the number of list pages served to tasks 1..n
PagesServed(ts, n) ==
    IF n = 0 THEN 0
    ELSE PagesServed(ts, n - 1)
         + Cardinality({k \in 1..Len(ts[n].served) :
                          /\ ts[n].served[k].kind = "json"
                          /\ "data" \in DOMAIN ts[n].served[k].body})

\* the bodies the remote may have sent for the outstanding request of t
Bodies(t) ==
    IF t.stage = "card" THEN {CardFor(t.uris[Len(t.uris)])}
    ELSE Envelopes(t.uris[Len(t.uris) - Len(t.pages)], Len(t.pages) + 1,
                   PagesServed(tasks, Len(tasks)) + 1 < MaxPages)

\* res.json() gives the body
JsonDecoded ==
    \E i \in 1..Len(tasks) :
      /\ tasks[i].net = "decoding"
      /\ \E body \in Bodies(tasks[i]) :
           Respond(i, [kind |-> "json", body |-> body])

Next ==
    \/ \E ref \in Refs : getCard(ref)
    \/ \E cards \in CardLists : getCardsBatch(cards)
    \/ \E cards \in CardLists : getCardsAndDo(cards)
    \/ \E cards \in CardLists, o \in PrintOptions :
         getCardPrintsAndDo(cards, o[1], o[2])
    \/ \E ref \in Refs, o \in PrintOptions :
         getCardPrintsFromCard(CardFor(GetCardURI(ref)), o[1], o[2])
    \/ Forget
    \/ Tick
    \/ DelayerDispatch
    \/ FetchThrows
    \/ FetchNotOk
    \/ FetchOk
    \/ JsonThrows
    \/ JsonDecoded

Spec == Init /\ [][Next]_vars

\* time passing, a fetch starting, a response arriving or a body decoded
Progress == Tick \/ DelayerDispatch \/ FetchOk \/ JsonDecoded

\* the same where the timers and the transport do not stop for ever while
\* they have something to do: time passes, the Delayer starts the oldest
\* pending operation, and a request under way is answered and decoded
SpecLive == Init /\ [][Next]_vars /\ WF_vars(Progress)

(***************************************************************************)
(* The request getCard builds, over many references: names generated from  *)
(* a small alphabet, and the names of the tests and their near misses.     *)
(***************************************************************************)
GeneratedNames == UNION {[1..n -> {"a", "1", "/"}] : n \in 0..MaxNameLen}

CuratedNames ==
    { <<"m", "3", "c", "/", "3", "3", "1", "/", "d", "e">>,
      <<"m", "3", "c", "/", "3", "3", "1", "/">>,
      <<"m", "3", "c", "/", "3", "3", "1">>,
      <<"l", "e", "b", "/", "2", "3", "3">>,
      <<"B", "l", "a", "c", "k", " ", "L", "o", "t", "u", "s">>,
      <<"b", "L", "A", "c", " ", "l", "O", "T", "u", "s">>,
      <<"T", "o", "u", "r", " ", "d", "e", " ", "c", "o", "m", "m", "a",
        "n", "d", "e">>,
      <<"5", "6", "e", "b", "c", "3", "7", "2", "-", "a", "a", "b", "d",
        "-", "4", "1", "7", "4", "-", "a", "9", "4", "3", "-", "c", "7",
        "b", "f", "5", "9", "e", "5", "0", "2", "8", "d">>,
      <<"0", "0", "0", "0", "0", "0", "0", "0", "-", "0", "0", "0", "0",
        "-", "0", "0", "0", "0", "-", "0", "0", "0", "0", "-", "0", "0",
        "0", "0", "0", "0", "0", "0", "0", "0", "0", "0">>,
      <<"5", "6", "E", "B", "C", "3", "7", "2", "-", "A", "A", "B", "D",
        "-", "4", "1", "7", "4", "-", "A", "9", "4", "3", "-", "C", "7",
        "B", "F", "5", "9", "E", "5", "0", "2", "8", "D">>,
      <<"5", "6", "e", "b", "c", "3", "7", "2", "-", "a", "a", "b", "d",
        "-", "4", "1", "7", "4", "-", "a", "9", "4", "3", "-", "c", "7",
        "b", "f", "5", "9", "e", "5", "0", "2", "8">>,
      <<"5", "6", "e", "b", "c", "3", "7", "2", "-", "a", "a", "b", "d",
        "-", "4", "1", "7", "4", "-", "a", "9", "4", "3", "-", "c", "7",
        "b", "f", "5", "9", "e", "5", "0", "2", "8", "d", "0">>,
      <<"5", "6", "e", "b", "c", "3", "7", "2", "a", "a", "b", "d", "-",
        "-", "4", "1", "7", "4", "-", "a", "9", "4", "3", "-", "c", "7",
        "b", "f", "5", "9", "e", "5", "0", "2", "8", "d">>,
      <<"g", "6", "e", "b", "c", "3", "7", "2", "-", "a", "a", "b", "d",
        "-", "4", "1", "7", "4", "-", "a", "9", "4", "3", "-", "c", "7",
        "b", "f", "5", "9", "e", "5", "0", "2", "8", "d">>,
      <<"a", "b", "c", "d", "e", "f", "/", "1">>,
      <<"a", "b", "/", "1">>,
      <<"m", "3", "c", "/", "3", "3", "1", "/", "d", "e", "u">>,
      <<"m", "3", "c", "/", "3", "3", "1", "/", "d", "e", "f", "g">>,
      <<"m", "3", "c", "/", "3", "3", "1", "/", "d">>,
      <<"m", "3", "c", "/", "3", "3", "1", "/", "d", "1">>,
      <<"m", "3", "c", "/", "3", "3", " ", "1", "/", "d", "e">>,
      <<"m", "3", "c", "/", "3", "3", "1", "/", "d", "e", "/">> }

\* languages that are not recognized: unknown, upper case, empty
OtherLanguages == { <<"x", "x">>, <<"F", "R">>, <<"f", "r", "a">>, << >> }

UriRefs ==
    { ParsedCard(n, l) :
        n \in GeneratedNames,
        l \in {Undefined, Str(<<"f", "r">>), Str(<<"z", "h", "s">>),
               Str(<<"x", "x">>)} }
    \cup
    { [name |-> n, quantity |-> q, language |-> l, customFlags |-> f] :
        n \in CuratedNames,
        q \in {1, 4},
        l \in {Undefined} \cup {Str(c) : c \in validLanguages \cup OtherLanguages},
        f \in {EmptyFlags, [x \in {<<"f", "o", "i", "l">>} |-> Undefined]} }

\* one getCard on a fresh service
UriNext == calls = << >> /\ \E ref \in UriRefs : getCard(ref)

SpecUri == Init /\ [][UriNext]_vars

(***************************************************************************)
(* parseString over many lines: every line over a small alphabet, and      *)
(* lines with quantities, names, languages and flags.  The client parses a *)
(* line and then, when the line is digits, a space and a rest, the rest.   *)
(***************************************************************************)
ParseChars == {"0", "1", "x", "l", "-", "=", " ", "\n"}

GeneratedLines == UNION {[1..n -> ParseChars] : n \in 0..MaxLineLen}

CuratedLines ==
    { <<"4", " ", "B", "l", "a", "c", "k", " ", "L", "o", "t", "u", "s",
        " ", "-", "l", "=", "f", "r", " ", "-", "f", "o", "i", "l">>,
      <<"0", " ", "B", "l", "a", "c", "k", " ", "L", "o", "t", "u", "s">>,
      <<"1", " ", "1", "9", "9", "6", " ", "W", "o", "r", "l", "d", " ",
        "C", "h", "a", "m", "p", "i", "o", "n">>,
      <<"m", "3", "c", "/", "3", "3", "1", "/", "d", "e", " ", "-", "l",
        "=", "f", "r">>,
      <<"2", " ", "x", " ", "-", "l", "=", "f", "r", " ", "-", "l", " ",
        "-", "L", "=", "d", "e", " ", "-", "x", "=", "1", " ", "-", "x",
        "=", "2">>,
      <<"-", "l", "=", "f", "r", " ", "-", "x", "=", "1", " ", "-", "x",
        "=", "2", " ", "-", "y">>,
      <<"3", " ", " ", "-", "x">>,
      <<"0", "0", "7", " ", "x">>,
      <<"x", " ", "-", "l", "=", "a", "=", "b">>,
      <<"x", " ", "-", "L", "=", "d", "e", " ", "-", "l", "=", "f", "r", " ",
        "-", "x", "=", "1", " ", "-", "x", "=", "2">>,
      <<"x", " ", " ", "-", "l">>,
      <<"1", "2", " ", "3", " ", "x", " ", "-", "l">>,
      <<"x", " ", "-", "l", "=", "\t", "-", "y">>,
      <<"x", " ", "-", "1", " ", "-", "l", "=">>,
      <<"2", " ", "x", "\n", "y">> }

Lines == GeneratedLines \cup CuratedLines

InitParse ==
    /\ tasks = << >>
    /\ calls = << >>
    /\ queue = << >>
    /\ elapsed = API_DELAY_MS
    /\ fetchGaps = << >>
    /\ line \in Lines
    /\ parsed = << >>

\* the length of the digits of a line made of digits, a space and a rest,
\* and 0 for any other line
QuantityPrefix(s) ==
    LET d == RunLength(s, 1, Digit)
    IN IF d > 0 /\ d < Len(s) /\ s[d + 1] = " " THEN d ELSE 0

\* the rest of a line made of digits, a space and a rest
RestOf(s) == SubSeq(s, QuantityPrefix(s) + 2, Len(s))

\* parseString(line)
ParseLine ==
    /\ parsed = << >>
    /\ parsed' = <<[input |-> line, result |-> parseString(line)]>>
    /\ UNCHANGED <<tasks, calls, queue, elapsed, fetchGaps, line>>

\* parseString of the rest of the line
ParseRest ==
    /\ Len(parsed) = 1
    /\ QuantityPrefix(line) > 0
    /\ parsed' = Append(parsed, [input |-> RestOf(line),
                                 result |-> parseString(RestOf(line))])
    /\ UNCHANGED <<tasks, calls, queue, elapsed, fetchGaps, line>>

ParseNext == ParseLine \/ ParseRest

SpecParse == InitParse /\ [][ParseNext]_vars

(***************************************************************************)
(* Properties.                                                             *)
(***************************************************************************)
\* the tasks of call number c, in input order
TasksOf(c) == [k \in 1..calls[c].n |-> tasks[calls[c].first + k - 1]]

OpOf(t) == calls[t.call].op

\* the transport's answers to the list requests of task t, in order
ListAnswers(t) ==
    IF OpOf(t) = "getCardPrintsFromCard" THEN t.served
    ELSE IF OpOf(t) = "getCardPrintsAndDo" /\ Len(t.served) > 0
    THEN Tail(t.served)
    ELSE << >>

\* the tasks that called getCard and have had the transport's answer
CardAnswered ==
    {i \in 1..Len(tasks) :
       OpOf(tasks[i]) # "getCardPrintsFromCard" /\ Len(tasks[i].served) > 0}

RECURSIVE Concatenation(_)
\* the entries of the answered pages, page after page
Concatenation(answers) ==
    IF Len(answers) = 0 THEN << >>
    ELSE Head(answers).body.data \o Concatenation(Tail(answers))

AllPagesFetched(answers) ==
    \A k \in 1..Len(answers) : answers[k].kind = "json"

\* the last page of the chain has been fetched: it announces no further page
ChainComplete(answers) ==
    /\ Len(answers) > 0
    /\ AllPagesFetched(answers)
    /\ LET last == answers[Len(answers)].body
       IN ~last.has_more \/ last.next_page = Undefined

\* C1: when the promise of getCardsBatch is fulfilled, its value has one
\* element per input and its k-th element is what the remote answered to
\* the request built from the k-th input (the card, or undefined when the
\* response was not ok), whatever the order the answers came in.
BatchOrderPreserved ==
    \A c \in 1..Len(calls) :
      (calls[c].op = "getCardsBatch" /\ calls[c].promise.state = "fulfilled")
      => /\ Len(calls[c].promise.value.items) = calls[c].n
         /\ \A k \in 1..calls[c].n :
              LET t == TasksOf(c)[k]
              IN /\ t.uris[1] = GetCardURI(t.input)
                 /\ calls[c].promise.value.items[k] =
                      IF t.served[1].kind = "json"
                      THEN CardFor(GetCardURI(t.input))
                      ELSE Undefined

\* a batch of two whose second answer came first, with different results
BatchAnsweredOutOfOrder ==
    \E c \in 1..Len(calls) :
      /\ calls[c].op = "getCardsBatch"
      /\ calls[c].promise.state = "fulfilled"
      /\ calls[c].order = <<2, 1>>
      /\ calls[c].promise.value.items[1] # calls[c].promise.value.items[2]

\* C2: the promise getCard returns is fulfilled with undefined, not
\* rejected, when the response is not ok; it is rejected, not fulfilled,
\* when fetch throws or the body cannot be decoded; and the promise of the
\* getCard operation is that promise.
NotFoundAndFaultDistinguished ==
    \A i \in CardAnswered :
      LET t == tasks[i]
      IN /\ t.served[1].kind = "not_ok" => t.card = Fulfilled(Undefined)
         /\ t.served[1].kind \in {"fetch_throws", "json_throws"}
              => t.card.state = "rejected"
         /\ OpOf(t) = "getCard" => calls[t.call].promise = t.card

\* one lookup answered not ok and another failing in the transport
NotFoundBesideFault ==
    \E i, j \in CardAnswered :
      /\ tasks[i].served[1].kind = "not_ok"
      /\ tasks[i].card.state = "fulfilled"
      /\ tasks[j].served[1].kind \in {"fetch_throws", "json_throws"}
      /\ tasks[j].card.state = "rejected"

\* C3: whatever _getListFromApi hands to the caller's transform is the
\* entries of all pages fetched for that list, page after page, each page
\* in its own order, nothing lost and nothing twice.
PaginationAssembly ==
    \A i \in 1..Len(tasks) :
      \A k \in 1..Len(tasks[i].transformCalls) :
        /\ AllPagesFetched(ListAnswers(tasks[i]))
        /\ tasks[i].transformCalls[k].items =
             Concatenation(ListAnswers(tasks[i]))

\* a chain of three pages, with at least four entries, has been assembled
ThreePagesAssembled ==
    \E i \in 1..Len(tasks) :
      /\ Len(ListAnswers(tasks[i])) = 3
      /\ Len(tasks[i].transformCalls) > 0
      /\ Len(tasks[i].transformCalls[1].items) >= 4
      /\ \A k \in 1..3 : Len(ListAnswers(tasks[i])[k].body.data) > 0

\* C4: in one paginated fetch the caller's transform is invoked once the
\* last page of the chain has been fetched, then exactly once and on as many
\* entries as all pages hold, and not at all before that; the result of the
\* fetch is the transform of that one argument.
TransformOnceAtEnd ==
    \A i \in 1..Len(tasks) :
      LET t == tasks[i]
          answers == ListAnswers(t)
      IN /\ Len(t.transformCalls) = IF ChainComplete(answers) THEN 1 ELSE 0
         /\ ChainComplete(answers)
              => /\ Len(t.transformCalls[1].items) =
                      Len(Concatenation(answers))
                 /\ t.list = Fulfilled(Transform(t.transformCalls[1],
                                                 calls[t.call].onlyPaper))

\* a chain of several pages filtered for paper once, the filter dropping
\* an entry
PaperFilterAppliedOnce ==
    \E i \in 1..Len(tasks) :
      /\ calls[tasks[i].call].onlyPaper
      /\ Len(ListAnswers(tasks[i])) >= 2
      /\ Len(tasks[i].transformCalls) = 1
      /\ tasks[i].list.state = "fulfilled"
      /\ Len(tasks[i].list.value.items) < Len(tasks[i].transformCalls[1].items)

\* C5: if the fetch of any page of a chain fails, by a response that is not
\* ok or by a fault of the transport, the paginated fetch is fulfilled with
\* undefined and the caller's transform is not invoked.
FailedPageGivesAbsent ==
    \A i \in 1..Len(tasks) :
      LET answers == ListAnswers(tasks[i])
      IN (\E k \in 1..Len(answers) : answers[k].kind # "json")
         => /\ tasks[i].list = Fulfilled(Undefined)
            /\ tasks[i].transformCalls = << >>

\* the part of C5 about responses that are not ok
NotOkPageGivesAbsent ==
    \A i \in 1..Len(tasks) :
      LET answers == ListAnswers(tasks[i])
      IN (\E k \in 1..Len(answers) : answers[k].kind = "not_ok")
         => /\ tasks[i].list = Fulfilled(Undefined)
            /\ tasks[i].transformCalls = << >>

AndDoOps == {"getCardsAndDo", "getCardPrintsAndDo"}

\* the chain of task t got no card: the lookup was answered not ok, or a
\* request of the chain failed
NoCardOrError(t) ==
    \/ \E k \in 1..Len(t.served) : t.served[k].kind # "json"

\* C6: in getCardsAndDo and getCardPrintsAndDo the callback is invoked at
\* most once per input, and once the requests of an input are over, whatever
\* their outcome, it has been invoked exactly once, with that input, and
\* with undefined when no card was found or an error occurred.
CallbackExactlyOncePerInput ==
    \A i \in 1..Len(tasks) :
      LET t == tasks[i]
      IN OpOf(t) \in AndDoOps
         => /\ Len(t.cbCalls) <= 1
            /\ t.stage = "done"
                 => /\ Len(t.cbCalls) = 1
                    /\ t.cbCalls[1].input = t.idx
                    /\ NoCardOrError(t) => t.cbCalls[1].result = Undefined

\* the part of C6 the code keeps: never twice, always with its own input,
\* and exactly once when no request of the input was rejected
CallbackOnceUnlessRejected ==
    \A i \in 1..Len(tasks) :
      LET t == tasks[i]
      IN OpOf(t) \in AndDoOps
         => /\ Len(t.cbCalls) <= 1
            /\ \A k \in 1..Len(t.cbCalls) : t.cbCalls[k].input = t.idx
            /\ (t.stage = "done" /\ t.promise.state = "fulfilled")
                 => Len(t.cbCalls) = 1

\* C7: the promise of getCardsAndDo / getCardPrintsAndDo is settled only
\* when the callback of every input has been invoked.
CompletesAfterEveryCallback ==
    \A c \in 1..Len(calls) :
      (calls[c].op \in AndDoOps /\ calls[c].promise.state # "pending")
      => \A k \in 1..calls[c].n : Len(TasksOf(c)[k].cbCalls) = 1

\* the part of C7 the code keeps: fulfilled only after every callback
FulfilledAfterEveryCallback ==
    \A c \in 1..Len(calls) :
      (calls[c].op \in AndDoOps /\ calls[c].promise.state = "fulfilled")
      => \A k \in 1..calls[c].n : Len(TasksOf(c)[k].cbCalls) = 1

Returned == {k \in 1..Len(parsed) : parsed[k].result # Undefined}

\* C11: every reference parseString returns has a quantity of at least 1,
\* whatever the line, also when its leading number is 0 or is missing.
QuantityAtLeastOne ==
    \A k \in Returned : parsed[k].result.quantity >= 1

\* the line is digits of a positive value, a space and a rest, holds no line
\* terminator, and both the line and its rest have been parsed
PrefixedLineParsed ==
    /\ Len(parsed) = 2
    /\ Decimal(SubSeq(line, 1, QuantityPrefix(line))) > 0
    /\ Range(line) \cap LineTerminator = {}

\* the rest of the line begins with whitespace, or with digits followed by
\* whitespace
RestLooksPrefixed ==
    LET rest == RestOf(line)
        d == RunLength(rest, 1, Digit)
    IN d < Len(rest) /\ rest[d + 1] \in WhiteSpace

\* C12 as stated: for a line "<N> <rest>" with N a positive integer,
\* parseString returns quantity N and the name that parsing <rest> on its
\* own returns, whatever <rest> begins with.
QuantityPrefixStripped ==
    PrefixedLineParsed
    => /\ parsed[1].result # Undefined
       /\ parsed[2].result # Undefined
       /\ parsed[1].result.quantity =
            Decimal(SubSeq(line, 1, QuantityPrefix(line)))
       /\ parsed[1].result.name = parsed[2].result.name

\* C12 as amended: for a line "<N> <rest>" with N a positive integer,
\* parseString returns quantity N; its name is the name that parsing <rest>
\* on its own returns when <rest> begins neither with whitespace nor with
\* digits followed by whitespace; and when <rest> begins with digits
\* followed by whitespace those digits are no second quantity: the name
\* begins with them.
QuantityPrefixStrippedOnce ==
    PrefixedLineParsed
    => /\ parsed[1].result # Undefined
       /\ parsed[2].result # Undefined
       /\ parsed[1].result.quantity =
            Decimal(SubSeq(line, 1, QuantityPrefix(line)))
       /\ ~RestLooksPrefixed
            => parsed[1].result.name = parsed[2].result.name
       /\ (RestLooksPrefixed /\ RunLength(RestOf(line), 1, Digit) > 0)
            => SubSeq(parsed[1].result.name, 1,
                      RunLength(RestOf(line), 1, Digit))
               = SubSeq(RestOf(line), 1, RunLength(RestOf(line), 1, Digit))

\* a line with a quantity above 1, a name and flags, parsed with and
\* without its quantity to the same name
QuantityNameAndFlagsParsed ==
    /\ PrefixedLineParsed
    /\ ~RestLooksPrefixed
    /\ parsed[1].result.quantity > 1
    /\ parsed[1].result.name # << >>
    /\ parsed[1].result.name = parsed[2].result.name
    /\ parsed[1].result.name # RestOf(line)
    /\ parsed[1].result.customFlags # EmptyFlags

\* C13: the name of a reference parseString returns is never empty after
\* trimming: a line whose name segment is empty or whitespace gives
\* undefined, not a reference.
NameNeverEmpty ==
    \A k \in Returned :
      Range(parsed[k].result.name) \ WhiteSpace # {}

\* C14: the customFlags of a reference parseString returns never hold the
\* key 'l'; the language of the reference is what parseFlags gives for 'l'
\* in the flags segment of the line, and every other flag parseFlags gives
\* is in customFlags with the same value, and no more.
LanguageFlagExtracted ==
    \A k \in Returned :
      LET ref == parsed[k].result
          flags == parseFlags(RegexpMatch(parsed[k].input).groups[3])
      IN /\ <<"l">> \notin DOMAIN ref.customFlags
         /\ ref.language = FlagsGet(flags, <<"l">>)
         /\ DOMAIN ref.customFlags = DOMAIN flags \ {<<"l">>}
         /\ \A x \in DOMAIN ref.customFlags : ref.customFlags[x] = flags[x]

\* a line with the flag l and its value among other flags, one of them 'L'
\* and one given twice
LanguageAmongOtherFlags ==
    \E k \in Returned :
      LET ref == parsed[k].result
      IN /\ ref.language = Str(<<"f", "r">>)
         /\ DOMAIN ref.customFlags = {<<"L">>, <<"x">>}
         /\ ref.customFlags[<<"L">>] = Str(<<"d", "e">>)
         /\ ref.customFlags[<<"x">>] = Str(<<"2">>)

(***************************************************************************)
(* The shapes of a name, read off its '/' and '-' positions.               *)
(***************************************************************************)
Positions(s, ch) == {i \in 1..Len(s) : s[i] = ch}

Least(S) == CHOOSE x \in S : \A y \in S : x <= y

\* where the second '/'-delimited component of s ends
SecondComponentEnd(s) ==
    LET P == Positions(s, "/")
    IN IF Cardinality(P) >= 2 THEN Least(P \ {Least(P)}) - 1 ELSE Len(s)

\* <3-5 alphanumerics>/<non-slash token>, then nothing, or '/', or '/' and
\* 2-3 letters
CodeShaped(s) ==
    LET P == Positions(s, "/")
    IN /\ Cardinality(P) \in {1, 2}
       /\ Least(P) - 1 \in 3..5
       /\ \A i \in 1..(Least(P) - 1) : s[i] \in AlNum
       /\ SecondComponentEnd(s) > Least(P)
       /\ Cardinality(P) = 2
            => /\ Len(s) - SecondComponentEnd(s) - 1 \in {0, 2, 3}
               /\ \A i \in (SecondComponentEnd(s) + 2)..Len(s) : s[i] \in Letter

\* the strict 8-4-4-4-12 grouping of lower-case hexadecimal digits
StrictUuid(s) ==
    /\ Len(s) = 36
    /\ Positions(s, "-") = {9, 14, 19, 24}
    /\ \A i \in 1..Len(s) : s[i] \in HexLower \cup {"-"}

\* the tasks that called getCard
CardTasks == {i \in 1..Len(tasks) : OpOf(tasks[i]) # "getCardPrintsFromCard"}

\* C9: for a code-shaped name and a recognized reference language, getCard
\* requests the first two '/'-delimited components of the name followed by
\* '/' and the reference language, whatever the name's own third component.
LanguageOverrideReplaces ==
    \A i \in CardTasks :
      LET ref == tasks[i].input
      IN (/\ CodeShaped(ref.name)
          /\ ref.language # Undefined
          /\ ref.language.chars \in validLanguages)
         => tasks[i].uris[1] =
              SCRYFALL_API_URI \o <<"/", "c", "a", "r", "d", "s", "/">>
              \o SubSeq(ref.name, 1, SecondComponentEnd(ref.name))
              \o <<"/">> \o ref.language.chars

\* a code with its own language segment requested in another language
EmbeddedLanguageOverridden ==
    \E i \in CardTasks :
      LET ref == tasks[i].input
      IN /\ CodeShaped(ref.name)
         /\ Len(ref.name) - SecondComponentEnd(ref.name) >= 3
         /\ ref.language # Undefined
         /\ ref.language.chars \in validLanguages
         /\ SubSeq(ref.name, SecondComponentEnd(ref.name) + 2, Len(ref.name))
              # ref.language.chars
         /\ Len(tasks[i].uris) = 1

\* C10: for a name of the strict identifier shape, whatever the language
\* and the flags, getCard requests /cards/{name}.
IdentifierRequestedDirectly ==
    \A i \in CardTasks :
      StrictUuid(tasks[i].input.name)
      => tasks[i].uris[1] =
           SCRYFALL_API_URI \o <<"/", "c", "a", "r", "d", "s", "/">>
           \o tasks[i].input.name

\* an identifier requested with a recognized language and a flag set
IdentifierWithLanguageAndFlags ==
    \E i \in CardTasks :
      /\ StrictUuid(tasks[i].input.name)
      /\ tasks[i].input.language # Undefined
      /\ tasks[i].input.language.chars \in validLanguages
      /\ tasks[i].input.customFlags # EmptyFlags
      /\ Len(tasks[i].uris) = 1

(***************************************************************************)
(* Requests: how many, for whom and in what order.                         *)
(***************************************************************************)
\* how many times x occurs in the sequence
Count(seq, x) == Cardinality({k \in 1..Len(seq) : seq[k] = x})

\* the operations whose inputs call getCard and nothing else
LookupOps == {"getCard", "getCardsBatch", "getCardsAndDo"}

\* the request of task t that has no answer yet, if any: 1 or 0
Outstanding(t) == IF t.net \in {"requested", "decoding"} THEN 1 ELSE 0

\* what holds of the requests of a getCard call in every state
OneRequestOneAnswer ==
    \A i \in CardTasks :
      LET t == tasks[i]
      IN /\ OpOf(t) \in LookupOps => Len(t.uris) = 1
         /\ Count(queue, i) <= Outstanding(t)
         /\ Len(t.uris) = Len(t.served) + Outstanding(t)
         /\ (Len(t.served) >= 1 /\ OpOf(t) \in LookupOps)
              => t.stage = "done"
         /\ (Len(t.served) >= 1 /\ t.served[1].kind = "not_ok")
              => /\ Len(t.uris) = 1
                 /\ t.card = Fulfilled(Undefined)
                 /\ t.stage = "done"

\* what holds of every step: an input that enters has made one request,
\* submitted once, and an operation is submitted for an input already
\* there only with a new request of that input
SubmittedOncePerRequest ==
    /\ \A i \in (Len(tasks) + 1)..Len(tasks') :
         Len(tasks'[i].uris) = 1 /\ Count(queue', i) = 1
    /\ \A i \in 1..Len(tasks) :
         (i <= Len(tasks') /\ Count(queue', i) > Count(queue, i))
         => /\ Count(queue', i) = 1
            /\ Len(tasks'[i].uris) = Len(tasks[i].uris) + 1

\* C15: a getCard call makes one request, which is submitted once to the
\* Delayer and answered at most once; once the answer is there, whatever it
\* is, nothing of the call is pending or queued, and after an answer that
\* is not ok the result is undefined and no further request is made for
\* the reference.
NoRetry == []OneRequestOneAnswer /\ [][SubmittedOncePerRequest]_vars

\* a batch of two lookups, one answered not ok and over while the other is
\* answered with its card
NotOkLookupLeftAlone ==
    \E i, j \in CardTasks :
      /\ tasks[i].call = tasks[j].call
      /\ OpOf(tasks[i]) \in LookupOps
      /\ Len(tasks[i].served) = 1
      /\ tasks[i].served[1].kind = "not_ok"
      /\ Len(tasks[j].served) = 1
      /\ tasks[j].served[1].kind = "json"
      /\ Len(fetchGaps) = 2
      /\ queue = << >>

\* the tasks of getCardPrintsAndDo
PrintsAndDoTasks ==
    {i \in 1..Len(tasks) : OpOf(tasks[i]) = "getCardPrintsAndDo"}

\* C16: in getCardPrintsAndDo a print-history request is made for an input
\* only once the lookup of that same input was answered with a card, and it
\* is the request of that card's print history; for an input whose lookup
\* gave undefined no further request is made and the callback is invoked
\* with that input and undefined.
PrintsOnlyAfterRecord ==
    \A i \in PrintsAndDoTasks :
      LET t == tasks[i]
      IN /\ Len(t.uris) >= 2
              => /\ t.served[1].kind = "json"
                 /\ t.card = Fulfilled(CardFor(GetCardURI(t.input)))
                 /\ t.uris[2] =
                      PrintsUrl(CardFor(GetCardURI(t.input)),
                                calls[t.call].includeMultilingual)
         /\ (Len(t.served) >= 1 /\ t.served[1].kind = "not_ok")
              => /\ Len(t.uris) = 1
                 /\ t.stage = "done"
                 /\ t.cbCalls = <<[input |-> t.idx, result |-> Undefined]>>

\* two inputs of one getCardPrintsAndDo: the lookup of one gave undefined
\* and its callback was invoked, the print history of the other is requested
AbsentLookupBesidePrints ==
    \E i, j \in PrintsAndDoTasks :
      /\ tasks[i].call = tasks[j].call
      /\ Len(tasks[i].served) = 1
      /\ tasks[i].served[1].kind = "not_ok"
      /\ Len(tasks[i].cbCalls) = 1
      /\ Len(tasks[i].uris) = 1
      /\ Len(tasks[j].uris) >= 2

\* the language codes the remote recognizes
RecognizedLanguages ==
    { <<"e", "n">>, <<"e", "s">>, <<"f", "r">>, <<"d", "e">>, <<"i", "t">>,
      <<"p", "t">>, <<"j", "a">>, <<"k", "o">>, <<"r", "u">>,
      <<"z", "h", "s">>, <<"z", "h", "t">> }

\* C17: for a code-shaped name, when the reference has no language or one
\* that is not recognized, getCard requests /cards/ followed by the name
\* exactly as given, its own language segment included.
UnrecognizedLanguageKeepsCode ==
    \A i \in CardTasks :
      LET ref == tasks[i].input
      IN (/\ CodeShaped(ref.name)
          /\ \/ ref.language = Undefined
             \/ ref.language.chars \notin RecognizedLanguages)
         => tasks[i].uris[1] =
              SCRYFALL_API_URI \o <<"/", "c", "a", "r", "d", "s", "/">>
              \o ref.name

\* a code with its own language segment requested with a language that is
\* a recognized one but for its case
CodeKeptUnderUnknownLanguage ==
    \E i \in CardTasks :
      LET ref == tasks[i].input
      IN /\ CodeShaped(ref.name)
         /\ Len(ref.name) - SecondComponentEnd(ref.name) >= 3
         /\ ref.language = Str(<<"F", "R">>)
         /\ Len(tasks[i].uris) = 1

\* the list requests of task t, in order
ListUris(t) ==
    IF OpOf(t) = "getCardPrintsFromCard" THEN t.uris
    ELSE IF Len(t.uris) > 0 THEN Tail(t.uris)
    ELSE << >>

\* the decoded page stops the chain: has_more is false or next_page absent
StopsChain(answer) ==
    /\ answer.kind = "json"
    /\ ~answer.body.has_more \/ answer.body.next_page = Undefined

\* C18: after a decoded page _getListFromApi requests a further page, the
\* one next_page names, exactly when has_more is true and next_page is
\* present; when has_more is false, whatever next_page, or next_page is
\* absent, whatever has_more, that page is the last request of the chain
\* and the transform is applied to the entries of the pages so far.
PaginationStops ==
    \A i \in 1..Len(tasks) :
      LET t == tasks[i]
          answers == ListAnswers(t)
      IN \A k \in 1..Len(answers) :
           answers[k].kind = "json"
           => IF StopsChain(answers[k])
              THEN /\ Len(ListUris(t)) = k
                   /\ Len(answers) = k
                   /\ t.transformCalls = <<List(Concatenation(answers))>>
              ELSE /\ Len(ListUris(t)) >= k + 1
                   /\ ListUris(t)[k + 1] = answers[k].body.next_page.chars

\* two chains ended: one, after a further page, by a page with has_more
\* false and next_page set, the other by a page with has_more true and no
\* next_page
ChainsStoppedBothWays ==
    \E i, j \in 1..Len(tasks) :
      LET a == ListAnswers(tasks[i])
          b == ListAnswers(tasks[j])
      IN /\ Len(a) = 2
         /\ StopsChain(a[2])
         /\ a[2].body.next_page # Undefined
         /\ Len(tasks[i].transformCalls) = 1
         /\ Len(b) = 1
         /\ StopsChain(b[1])
         /\ b[1].body.has_more
         /\ Len(tasks[j].transformCalls) = 1

\* the operations over a list of inputs
BatchOps == {"getCardsBatch", "getCardsAndDo", "getCardPrintsAndDo"}

\* a request of task t, a lookup or any page of its print history, is
\* queued or has no answer yet, or its answer is being worked on
Unanswered(t) == t.stage # "done"

\* a request of task t failed in the transport
Faulted(t) ==
    \E k \in 1..Len(t.served) :
      t.served[k].kind \in {"fetch_throws", "json_throws"}

\* the fetch of a request of task i has started and its answer, or the
\* decoding of its body, has not come
Hanging(i) == InFlight(i) \/ tasks[i].net = "decoding"

FulfilledOnlyAfterEveryResponse ==
    \A c \in 1..Len(calls) :
      /\ calls[c].promise.state = "fulfilled"
           => \A k \in 1..calls[c].n : ~Unanswered(TasksOf(c)[k])
      /\ calls[c].promise.state = "rejected"
           => \E k \in 1..calls[c].n : Faulted(TasksOf(c)[k])
      /\ (calls[c].promise.state = "rejected" /\ calls[c].op \in SingleOps)
           => ~Unanswered(TasksOf(c)[1])

\* an operation is under way, its promise pending
OperationPending == calls # << >> /\ calls[1].promise.state = "pending"

\* the operation is fulfilled, or a request of it failed in the transport,
\* or the client has dropped it
OperationOver ==
    \/ calls = << >>
    \/ calls[1].promise.state = "fulfilled"
    \/ \E k \in 1..calls[1].n : Faulted(TasksOf(1)[k])

LookupStarted(i) == ~(Len(tasks[i].uris) = 1 /\ Count(queue, i) > 0)

\* the fetch of a follow-up request of task i has started
FollowUpStarted(i) ==
    \/ Len(tasks[i].uris) >= 3
    \/ Len(tasks[i].uris) = 2 /\ Count(queue, i) = 0

\* what holds of the fetches of a batch in every state
DispatchedInInputOrder ==
    \A c \in 1..Len(calls) :
      calls[c].op \in BatchOps
      => \A i, j \in calls[c].first..(calls[c].first + calls[c].n - 1) :
           /\ (i < j /\ LookupStarted(j)) => LookupStarted(i)
           /\ FollowUpStarted(i) => LookupStarted(j)

\* what holds of every step: a batch that enters puts the lookups of all
\* its inputs behind what the Delayer holds, in input order, and while a
\* lookup waits no fetch but that of the oldest pending operation starts
SubmittedInInputOrder ==
    /\ Len(calls') > Len(calls)
         => LET c == calls'[Len(calls')]
            IN /\ Len(tasks') = Len(tasks) + c.n
               /\ queue' = queue \o [k \in 1..c.n |-> c.first + k - 1]
    /\ Len(fetchGaps') > Len(fetchGaps)
         => /\ queue # << >>
            /\ queue' = Tail(queue)
            /\ Len(fetchGaps') = Len(fetchGaps) + 1

\* C20: a batch submits the lookup of every input to the Delayer in input
\* order, in the step that calls it and so before any answer; the Delayer
\* starting the oldest first, the lookup of input i starts before that of
\* input j when i < j, and a follow-up request of the batch starts after
\* the lookups of all its inputs have started.
BatchDispatchOrder ==
    []DispatchedInInputOrder /\ [][SubmittedInInputOrder]_vars

\* a batch of two whose first input was answered, and its print history
\* requested, before the lookup of the second started; that follow-up has
\* started and the second lookup has no answer yet
FollowUpBehindLaterLookup ==
    \E i, j \in PrintsAndDoTasks :
      /\ tasks[i].call = tasks[j].call
      /\ tasks[i].idx < tasks[j].idx
      /\ FollowUpStarted(i)
      /\ InFlight(j)
      /\ Len(tasks[j].uris) = 1

====
